---- MODULE Spec2Model ----
(***************************************************************************)
(* Cold backup of neo4j under fleet: runOuter / runInner (the backup       *)
(* orchestrator), shutDownNeo / isServiceActive / setTargetState /         *)
(* startNeo (the service controller, fleet.go) and uploadToS3 (the upload  *)
(* sink adapter), together with the fleet scheduler, the rsync primitive,  *)
(* the archiver goroutine and the S3 sink as their environment.            *)
(***************************************************************************)
EXTENDS Integers, Sequences, FiniteSets, TLC

\* ---------------------------------------------------------------- bounds
\* longest unit roster the scheduler holds during a run
MaxRoster == 1
\* longest unit roster isServiceActive is given when called on its own
MaxScanned == 2
\* most chunks the archiver writes into the pipe
MaxChunks == 3
\* chunks the pipe holds between a write and the read that consumes it
PipeCap == 1

\* ------------------------------------------------------------- constants
deployerServiceName == "deployer.service"
neoServiceName == "neo4j-red@1.service"

UnitNames == {deployerServiceName, neoServiceName}
ActiveStates == {"active", "inactive", "failed"}
UnitState == [name : UnitNames, activeState : ActiveStates]

RECURSIVE SeqsUpTo(_, _)
SeqsUpTo(S, n) ==
    IF n = 0 THEN {<<>>}
    ELSE LET shorter == SeqsUpTo(S, n - 1)
         IN  shorter \cup {Append(s, x) : s \in {t \in shorter : Len(t) = n - 1}, x \in S}

Rosters == SeqsUpTo(UnitState, MaxRoster)

ScannedRosters == SeqsUpTo(UnitState, MaxScanned)

\* ----------------------------------------------------------------- state
VARIABLES
    pc,           \* position of the main goroutine
    err,          \* the err value the current function holds / returns
    exitCode,     \* process exit status, -1 while running
    ops,          \* external operations issued so far, in order
    roster,       \* the units the scheduler currently reports
    serviceName,  \* isServiceActive's serviceName argument
    isActive,     \* isServiceActive's isActive
    found,        \* isServiceActive's found
    stopObs,      \* what held when SetUnitTargetState(neo, "inactive") was issued
    sink,         \* bucketWriter: state, Close calls, bytes received
    apc,          \* position of the archiver goroutine
    total,        \* chunks the archive consists of
    written,      \* chunks the archiver has written into the pipe
    pipe,         \* chunks written and not yet read
    wClosed,      \* write end of the pipe: "no", "eof", "err"
    rClosed       \* read end of the pipe closed

vars == <<pc, err, exitCode, ops, roster, serviceName, isActive, found,
          stopObs, sink, apc, total, written, pipe, wClosed, rClosed>>

fleetVars == <<serviceName, isActive, found, stopObs>>
pipeVars == <<apc, total, written, pipe, wClosed, rClosed>>

Op(op, unit, arg, res) == [op |-> op, unit |-> unit, arg |-> arg, res |-> res]

NoObs == [issued |-> FALSE, live |-> FALSE, seen |-> FALSE]

\* -------------------------------------------------------- isServiceActive
\* fleet.go 107-121: linear scan, the first entry of that name decides
RECURSIVE ScanNoBreak(_, _, _)
ScanNoBreak(us, name, i) ==
    IF i > Len(us) THEN [isActive |-> FALSE, found |-> FALSE]
    ELSE LET rest == ScanNoBreak(us, name, i + 1)
         IN  IF us[i].name = name
             THEN [isActive |-> (us[i].activeState = "active") \/ rest.isActive,
                   found |-> TRUE]
             ELSE rest

RECURSIVE Scan(_, _, _)
Scan(us, name, i) ==
    IF i > Len(us) THEN [isActive |-> FALSE, found |-> FALSE]
    ELSE IF us[i].name = name
         THEN [isActive |-> us[i].activeState = "active", found |-> TRUE]
         ELSE Scan(us, name, i + 1)

\* fleet.go 98-127: (isActive, found, err) for a UnitStates() reply
isServiceActive(reply, e, name) ==
    IF e # "nil"
    THEN [isActive |-> FALSE, found |-> FALSE, err |-> e]
    ELSE [isActive |-> Scan(reply, name, 1).isActive,
          found |-> Scan(reply, name, 1).found,
          err |-> e]

\* fleet.go 58: the guard that refuses to stop neo4j
RefusesOnErrorOnly(active, e) == e # "nil"

RefusesOnActiveOnly(active, e) == active

Refuses(active, e) == active \/ e # "nil"

\* fleet.go 65-70: the error shutDownNeo returns when it refuses
RefusalErrorUnset(e) == e

RefusalError(e) == IF e # "nil" THEN e ELSE "SafetyViolation"

\* ------------------------------------------------------------------ Init
Idle ==
    /\ isActive = FALSE
    /\ found = FALSE
    /\ stopObs = NoObs
    /\ err = "nil"
    /\ exitCode = -1
    /\ ops = <<>>
    /\ sink = [state |-> "none", closes |-> 0, data |-> <<>>, late |-> FALSE]
    /\ apc = "none"
    /\ total = 0
    /\ written = 0
    /\ pipe = <<>>
    /\ wClosed = "no"
    /\ rClosed = FALSE

Init ==
    /\ pc = "newFleetClient"
    /\ roster \in Rosters
    /\ serviceName = deployerServiceName
    /\ Idle

\* what the first roster entry named name reports, "absent" if there is none
DependentState(us, name) ==
    IF \E i \in DOMAIN us : us[i].name = name
    THEN us[CHOOSE i \in DOMAIN us :
                /\ us[i].name = name
                /\ \A j \in DOMAIN us : us[j].name = name => i <= j].activeState
    ELSE "absent"

\* -------------------------------------------------------------- runOuter
\* part_000 116-124, fleet.go 21-53: url.Parse / NewHTTPClient fail, or the
\* proxy cannot be constructed and log.Fatalf ends the process
NewFleetClient ==
    /\ pc = "newFleetClient"
    /\ \E e \in {"nil", "ConnectivityError", "fatal"} :
          /\ pc' = IF e = "nil" THEN "newBucketWriter"
                   ELSE IF e = "fatal" THEN "exited" ELSE "return"
          /\ err' = IF e = "fatal" THEN err ELSE e
          /\ exitCode' = IF e = "fatal" THEN 1 ELSE exitCode
    /\ UNCHANGED <<ops, roster, fleetVars, sink, pipeVars>>

\* part_000 125-131, 208-215
NewBucketWriterErrorIgnored ==
    /\ pc = "newBucketWriter"
    /\ \E e \in {"nil", "ConnectivityError"} :
          /\ err' = e
          /\ pc' = "hotSync"
          /\ sink' = IF e = "nil" THEN [sink EXCEPT !.state = "open"] ELSE sink
    /\ UNCHANGED <<exitCode, ops, roster, fleetVars, pipeVars>>

NewBucketWriter ==
    /\ pc = "newBucketWriter"
    /\ \E e \in {"nil", "ConnectivityError"} :
          /\ err' = e
          /\ pc' = IF e = "nil" THEN "hotSync" ELSE "return"
          /\ sink' = IF e = "nil" THEN [sink EXCEPT !.state = "open"] ELSE sink
    /\ UNCHANGED <<exitCode, ops, roster, fleetVars, pipeVars>>

\* -------------------------------------------------------------- runInner
SyncResults == {"nil", "SyncError"}

\* part_000 "if err != nil { ...; return err }"
CheckIgnored(e, next) == next

Check(e, next) == IF e # "nil" THEN "return" ELSE next

\* part_000 149: the retry is entered only when the first hot rsync failed
AfterHotSyncRetriedUntilDone(e) == IF e # "nil" THEN "hotSync" ELSE "shutDownNeo"

AfterHotSync(e) == IF e # "nil" THEN "hotRetry" ELSE "shutDownNeo"

\* part_000 156-166: a failed retry is only logged
AfterHotRetryFatal(e) == Check(e, "shutDownNeo")

AfterHotRetry(e) == "shutDownNeo"

\* part_000 168-171: runInner returns when shutDownNeo's stop request failed
AfterStopIgnored(e) == "coldSync"

AfterStop(e) == Check(e, "coldSync")

\* part_000 177-184
AfterColdSyncIgnored(e) == "startNeo"

AfterColdSyncRetried(e) == IF e # "nil" THEN "coldSync" ELSE "startNeo"

AfterColdSync(e) == Check(e, "startNeo")

\* part_000 148
HotSync ==
    /\ pc = "hotSync"
    /\ \E e \in SyncResults :
          /\ ops' = Append(ops, Op("rsync", "", "hot", e))
          /\ err' = e
          /\ pc' = AfterHotSync(e)
    /\ UNCHANGED <<exitCode, roster, fleetVars, sink, pipeVars>>

\* part_000 155
HotRetry ==
    /\ pc = "hotRetry"
    /\ \E e \in SyncResults :
          /\ ops' = Append(ops, Op("rsync", "", "hot", e))
          /\ err' = e
          /\ pc' = AfterHotRetry(e)
    /\ UNCHANGED <<exitCode, roster, fleetVars, sink, pipeVars>>

\* part_000 167-171, fleet.go 55-72 and 98-127: shutDownNeo asks the scheduler
\* for the roster and refuses, or goes on to the stop request
ShutDownNeoCheckHoisted ==
    /\ pc = "shutDownNeo"
    /\ \E e \in {"nil", "ConnectivityError"}, h \in SyncResults :
          LET r == isServiceActive(roster, e, serviceName)
              refused == Refuses(r.isActive, r.err)
              query == Op("UnitStates", serviceName,
                          IF e = "nil" THEN DependentState(roster, serviceName)
                          ELSE "", e)
          IN  /\ ops' = IF refused THEN Append(ops, query)
                        ELSE ops \o <<query, Op("rsync", "", "hot", h)>>
              /\ isActive' = r.isActive
              /\ found' = r.found
              /\ err' = IF refused THEN RefusalError(r.err) ELSE r.err
              /\ pc' = IF refused THEN Check(RefusalError(r.err), "coldSync")
                       ELSE "setInactive"
    /\ UNCHANGED <<exitCode, roster, serviceName, stopObs, sink, pipeVars>>

ShutDownNeoCheck ==
    /\ pc = "shutDownNeo"
    /\ \E e \in {"nil", "ConnectivityError"} :
          LET r == isServiceActive(roster, e, serviceName)
              refused == Refuses(r.isActive, r.err)
          IN  /\ ops' = Append(ops, Op("UnitStates", serviceName,
                               IF e = "nil" THEN DependentState(roster, serviceName)
                               ELSE "", e))
              /\ isActive' = r.isActive
              /\ found' = r.found
              /\ err' = IF refused THEN RefusalError(r.err) ELSE r.err
              /\ pc' = IF refused THEN Check(RefusalError(r.err), "coldSync")
                       ELSE "setInactive"
    /\ UNCHANGED <<exitCode, roster, serviceName, stopObs, sink, pipeVars>>

\* fleet.go 74-76 and 80-96, part_000 168-171: the stop request
ShutDownNeoStop ==
    /\ pc = "setInactive"
    /\ \E e \in {"nil", "SchedulerError"} :
          /\ ops' = Append(ops, Op("SetUnitTargetState", neoServiceName, "inactive", e))
          /\ err' = e
          /\ pc' = AfterStop(e)
    /\ stopObs' = [issued |-> TRUE,
                   live |-> DependentState(roster, deployerServiceName) = "active",
                   seen |-> isActive]
    /\ UNCHANGED <<exitCode, roster, serviceName, isActive, found, sink, pipeVars>>

\* part_000 176-184
ColdSync ==
    /\ pc = "coldSync"
    /\ \E e \in SyncResults :
          /\ ops' = Append(ops, Op("rsync", "", "cold", e))
          /\ err' = e
          /\ pc' = AfterColdSync(e)
    /\ UNCHANGED <<exitCode, roster, fleetVars, sink, pipeVars>>

\* fleet.go 129-135: what startNeo returns for the reply to its request
startNeo(e) == "nil"

\* part_000 186-190, fleet.go 129-135 and 80-96: the start request
StartNeo ==
    /\ pc = "startNeo"
    /\ \E e \in {"nil", "SchedulerError"} :
          /\ ops' = Append(ops, Op("SetUnitTargetState", neoServiceName, "launched", e))
          /\ err' = startNeo(e)
          /\ pc' = Check(startNeo(e), "createBackup")
    /\ UNCHANGED <<exitCode, roster, fleetVars, sink, pipeVars>>

\* the scheduler's units change state on their own, at any moment
FleetChange ==
    /\ pc # "exited"
    /\ \E i \in DOMAIN roster, s \in ActiveStates :
          /\ s # roster[i].activeState
          /\ roster' = [roster EXCEPT ![i].activeState = s]
    /\ UNCHANGED <<pc, err, exitCode, ops, fleetVars, sink, pipeVars>>

\* part_000 104-108: exit status 1 on error, 0 otherwise
Exit ==
    /\ pc = "return"
    /\ pc' = "exited"
    /\ exitCode' = IF err # "nil" THEN 1 ELSE 0
    /\ UNCHANGED <<err, ops, roster, fleetVars, sink, pipeVars>>

\* ------------------------------------------------- createBackup, archiver
\* part_000 192-196: createBackup hands back the read end of a pipe at once, or
\* fails; the archive it will write has 0..MaxChunks chunks
CreateBackup ==
    /\ pc = "createBackup"
    /\ \E e \in {"nil", "ArchiveError"} :
          /\ ops' = Append(ops, Op("createBackup", "", "", e))
          /\ err' = e
          /\ pc' = Check(e, "copy")
          /\ IF e = "nil"
             THEN /\ apc' = "writing"
                  /\ \E n \in 0 .. MaxChunks : total' = n
             ELSE UNCHANGED <<apc, total>>
    /\ UNCHANGED <<exitCode, roster, fleetVars, sink, written, pipe, wClosed, rClosed>>

\* the archiver goroutine lives until the process exits.
\* It writes its next chunk: the write waits while the pipe is full, and fails
\* once the read end is closed
ArchiverWrite ==
    /\ pc # "exited"
    /\ apc = "writing"
    /\ written < total
    /\ IF rClosed
       THEN /\ apc' = "aborted"
            /\ wClosed' = "err"
            /\ UNCHANGED <<written, pipe>>
       ELSE /\ Len(pipe) < PipeCap
            /\ pipe' = Append(pipe, written + 1)
            /\ written' = written + 1
            /\ UNCHANGED <<apc, wClosed>>
    /\ UNCHANGED <<pc, err, exitCode, ops, roster, fleetVars, sink, total, rClosed>>

\* the archiver has written everything and closes the write end
ArchiverClose ==
    /\ pc # "exited"
    /\ apc = "writing"
    /\ written = total
    /\ apc' = "closed"
    /\ wClosed' = "eof"
    /\ UNCHANGED <<pc, err, exitCode, ops, roster, fleetVars, sink, total, written,
                   pipe, rClosed>>

\* walking or reading the directory fails: the pipe is closed with the error
ArchiverFail ==
    /\ pc # "exited"
    /\ apc = "writing"
    /\ apc' = "failed"
    /\ wClosed' = "err"
    /\ UNCHANGED <<pc, err, exitCode, ops, roster, fleetVars, sink, total, written,
                   pipe, rClosed>>

\* ------------------------------------------------------------ uploadToS3
\* a Write on bucketWriter: bytes arrive unless the write fails; a write to a
\* closed sink is recorded
SinkWriteLossy(s, chunk, e) == [s EXCEPT !.late = @ \/ s.state = "closed"]

SinkWrite(s, chunk, e) ==
    [s EXCEPT !.data = IF e = "nil" THEN Append(@, chunk) ELSE @,
              !.late = @ \/ s.state = "closed"]

\* part_000 218: defer bucketWriter.Close()
NoClose(s) == s

SinkClose(s) == [s EXCEPT !.state = "closed", !.closes = @ + 1]

\* part_000 221: one round of io.Copy, a chunk read from the pipe and written
\* to the sink
CopyChunk ==
    /\ pc = "copy"
    /\ pipe # <<>>
    /\ pipe' = Tail(pipe)
    /\ \E e \in {"nil", "UploadError"} :
          /\ sink' = SinkWrite(sink, Head(pipe), e)
          /\ err' = e
          /\ pc' = IF e = "nil" THEN "copy" ELSE "deferClose"
    /\ UNCHANGED <<exitCode, ops, roster, fleetVars, apc, total, written, wClosed,
                   rClosed>>

\* part_000 221-226: io.Copy reads the end of the stream, or the error the
\* write end was closed with
CopyEnd ==
    /\ pc = "copy"
    /\ pipe = <<>>
    /\ wClosed # "no"
    /\ err' = IF wClosed = "eof" THEN "nil" ELSE "ArchiveError"
    /\ pc' = IF wClosed = "eof" THEN "closeReader" ELSE "deferClose"
    /\ UNCHANGED <<exitCode, ops, roster, fleetVars, sink, pipeVars>>

\* part_000 226: pipeReader.Close(), on the success path only
ClosePipeReader ==
    /\ pc = "closeReader"
    /\ rClosed' = TRUE
    /\ pc' = "deferClose"
    /\ UNCHANGED <<err, exitCode, ops, roster, fleetVars, sink, apc, total, written,
                   pipe, wClosed>>

\* part_000 218 and 199-205: the deferred Close runs, uploadToS3 returns err and
\* runInner returns it
UploadReturn ==
    /\ pc = "deferClose"
    /\ sink' = SinkClose(sink)
    /\ ops' = Append(ops, Op("uploadToS3", "", "", err))
    /\ pc' = "return"
    /\ UNCHANGED <<err, exitCode, roster, fleetVars, pipeVars>>

Next ==
    \/ NewFleetClient
    \/ NewBucketWriter
    \/ HotSync
    \/ HotRetry
    \/ ShutDownNeoCheck
    \/ ShutDownNeoStop
    \/ ColdSync
    \/ StartNeo
    \/ CreateBackup
    \/ ArchiverWrite
    \/ ArchiverClose
    \/ ArchiverFail
    \/ CopyChunk
    \/ CopyEnd
    \/ ClosePipeReader
    \/ UploadReturn
    \/ Exit
    \/ FleetChange

Spec == Init /\ [][Next]_vars

\* the steps of the main goroutine
Run ==
    \/ NewFleetClient
    \/ NewBucketWriter
    \/ HotSync
    \/ HotRetry
    \/ ShutDownNeoCheck
    \/ ShutDownNeoStop
    \/ ColdSync
    \/ StartNeo
    \/ CreateBackup
    \/ CopyChunk
    \/ CopyEnd
    \/ ClosePipeReader
    \/ UploadReturn
    \/ Exit

\* every call the main goroutine makes returns, and the archiver goes on
\* writing while the pipe has room and closes its end when it is done
FairSpec ==
    /\ Spec
    /\ WF_vars(Run)
    /\ WF_vars(ArchiverWrite)
    /\ WF_vars(ArchiverClose)

\* ------------------------------------------- isServiceActive on its own
\* names a caller may ask for: the two units and one that no roster holds
QueryNames == UnitNames \cup {"other.service"}

InitActive ==
    /\ pc = "isServiceActive"
    /\ roster \in ScannedRosters
    /\ serviceName \in QueryNames
    /\ Idle

\* fleet.go 98-127: one call of isServiceActive(fleetClient, serviceName)
IsServiceActiveCall ==
    /\ pc = "isServiceActive"
    /\ \E e \in {"nil", "ConnectivityError"} :
          LET r == isServiceActive(roster, e, serviceName)
          IN  /\ isActive' = r.isActive
              /\ found' = r.found
              /\ err' = r.err
              /\ ops' = Append(ops, Op("UnitStates", serviceName, "", e))
    /\ pc' = "isServiceActiveReturned"
    /\ UNCHANGED <<exitCode, roster, serviceName, stopObs, sink, pipeVars>>

SpecActive == InitActive /\ [][IsServiceActiveCall]_vars

\* ======================================================== the properties
Issued(i, op, arg) == i \in DOMAIN ops /\ ops[i].op = op /\ ops[i].arg = arg

Returned == pc \in {"return", "exited"}

HotOps == SelectSeq(ops, LAMBDA o : o.op = "rsync" /\ o.arg = "hot")

SetOps == SelectSeq(ops, LAMBDA o : o.op = "SetUnitTargetState")

\* the roster query failed, or its reply showed the dependent unit active
QueryRefusing(i) ==
    /\ i \in DOMAIN ops
    /\ ops[i].op = "UnitStates"
    /\ (ops[i].res # "nil" \/ ops[i].arg = "active")

\* C1: when the roster query fails, or its reply shows deployer.service (the
\* entry of that name the scan meets) active, the run ends in failure, and no
\* SetUnitTargetState request, cold sync, archive or upload is ever performed.
C1_RefusalHaltsRun ==
    (\E i \in DOMAIN ops : QueryRefusing(i)) =>
        /\ Returned
        /\ err # "nil"
        /\ pc = "exited" => exitCode = 1
        /\ \A j \in DOMAIN ops :
              /\ ops[j].op \notin {"SetUnitTargetState", "createBackup", "uploadToS3"}
              /\ ~(ops[j].op = "rsync" /\ ops[j].arg = "cold")
        /\ apc = "none"
        /\ sink.data = <<>>

C1_Witness ==
    /\ pc = "exited"
    /\ \E i \in DOMAIN ops : ops[i].op = "UnitStates" /\ ops[i].arg = "active"

\* C2 as stated: the stop request is issued only after a roster query that
\* shows deployer.service with active-state "inactive".
C2_StopOnlyOnInactive ==
    \A i \in DOMAIN ops : Issued(i, "SetUnitTargetState", "inactive") =>
        \E j \in 1 .. (i - 1) :
            ops[j].op = "UnitStates" /\ ops[j].res = "nil" /\ ops[j].arg = "inactive"

\* C2 amended: the stop request is issued only after a roster query that
\* succeeded and did not show deployer.service active; a unit absent from the
\* roster, or in a state other than "active", counts as inactive.
C2_StopOnlyOnNotActive ==
    \A i \in DOMAIN ops : Issued(i, "SetUnitTargetState", "inactive") =>
        /\ i > 1
        /\ ops[i - 1].op = "UnitStates"
        /\ ops[i - 1].res = "nil"
        /\ ops[i - 1].arg \in {"inactive", "failed", "absent"}
        /\ \A j \in DOMAIN ops : ops[j].op = "UnitStates" => j = i - 1

C2_Witness ==
    \E i \in DOMAIN ops :
        /\ Issued(i, "SetUnitTargetState", "inactive")
        /\ ops[i - 1].op = "UnitStates"
        /\ ops[i - 1].arg = "absent"

\* C3 as stated: deployer.service is not active in the scheduler at the moment
\* the stop request is issued.
C3_NotActiveAtStop == stopObs.issued => ~stopObs.live

\* C3 amended: at the moment the stop request is issued, the roster query made
\* just before it had not reported deployer.service active; the unit may have
\* become active since.
C3_NotSeenActiveAtStop ==
    stopObs.issued =>
        /\ ~stopObs.seen
        /\ \E i \in DOMAIN ops :
              /\ ops[i].op = "UnitStates"
              /\ ops[i].res = "nil"
              /\ ops[i].arg # "active"
              /\ Issued(i + 1, "SetUnitTargetState", "inactive")

C3_Witness == stopObs.issued /\ stopObs.live /\ ~stopObs.seen

\* C4 as stated: after a successful roster query isServiceActive is true
\* exactly when some roster entry named N is active, and false with a nil
\* error when N is absent.
C4_ActiveIffSomeEntryActive ==
    (pc = "isServiceActiveReturned" /\ ops[1].res = "nil") =>
        /\ isActive <=> \E i \in DOMAIN roster :
                            roster[i].name = serviceName /\ roster[i].activeState = "active"
        /\ DependentState(roster, serviceName) = "absent" => ~isActive /\ err = "nil"

\* C4 amended: after a successful roster query isServiceActive is true exactly
\* when the first roster entry named N is active, and false with a nil error
\* when N is absent.
C4_ActiveIffFirstEntryActive ==
    (pc = "isServiceActiveReturned" /\ ops[1].res = "nil") =>
        /\ isActive <=> DependentState(roster, serviceName) = "active"
        /\ found <=> DependentState(roster, serviceName) # "absent"
        /\ DependentState(roster, serviceName) = "absent" => ~isActive /\ err = "nil"

C4_Witness ==
    /\ pc = "isServiceActiveReturned"
    /\ ops[1].res = "nil"
    /\ ~isActive
    /\ \E i, j \in DOMAIN roster :
          /\ i < j
          /\ roster[i].name = serviceName
          /\ roster[j].name = serviceName
          /\ roster[i].activeState # "active"
          /\ roster[j].activeState = "active"

\* C5: the hot sync runs once, a second time exactly when the first failed,
\* never a third time, and whatever the outcomes the run goes on to the roster
\* query instead of ending.
C5_HotSyncRetriedOnceNonFatal ==
    /\ Len(HotOps) <= 2
    /\ \A i \in 1 .. Len(HotOps) : ops[i] = HotOps[i]
    /\ pc \notin {"newFleetClient", "newBucketWriter", "hotSync"} /\ sink.state # "none"
          => Len(HotOps) >= 1
    /\ Len(HotOps) = 2 => HotOps[1].res # "nil"
    /\ (Len(HotOps) = 1 /\ HotOps[1].res # "nil") => pc = "hotRetry"
    /\ (Len(HotOps) >= 1 /\ pc \notin {"hotRetry", "shutDownNeo"}) =>
          /\ Len(ops) > Len(HotOps)
          /\ ops[Len(HotOps) + 1].op = "UnitStates"

C5_Witness ==
    /\ Len(HotOps) = 2
    /\ HotOps[2].res # "nil"
    /\ \E i \in DOMAIN ops : ops[i].op = "UnitStates"

\* C6: a failed cold sync ends the run in failure with that error, nothing is
\* requested or started afterwards, and the last target state requested for
\* neo4j is "inactive".
C6_ColdSyncFatal ==
    (\E i \in DOMAIN ops : Issued(i, "rsync", "cold") /\ ops[i].res # "nil") =>
        /\ Returned
        /\ err = "SyncError"
        /\ pc = "exited" => exitCode = 1
        /\ Issued(Len(ops), "rsync", "cold")
        /\ \A j \in DOMAIN ops : ops[j].op \notin {"createBackup", "uploadToS3"}
        /\ apc = "none"
        /\ SetOps = <<Op("SetUnitTargetState", neoServiceName, "inactive", "nil")>>

C6_Witness ==
    /\ pc = "exited"
    /\ Issued(Len(ops), "rsync", "cold")
    /\ ops[Len(ops)].res = "SyncError"

\* C7: when the scheduler fails the "launched" request, the run ends with that
\* error and neither the archive nor the upload is started.
C7_StartFailureHaltsRun ==
    (\E i \in DOMAIN ops : Issued(i, "SetUnitTargetState", "launched") /\ ops[i].res # "nil") =>
        /\ Returned
        /\ err = "SchedulerError"
        /\ \A j \in DOMAIN ops : ops[j].op \notin {"createBackup", "uploadToS3"}

\* every fatal stage was reached and succeeded
AllStagesSucceeded ==
    /\ \E i \in DOMAIN ops :
          ops[i].op = "UnitStates" /\ ops[i].res = "nil" /\ ops[i].arg # "active"
    /\ \E i \in DOMAIN ops : Issued(i, "SetUnitTargetState", "inactive") /\ ops[i].res = "nil"
    /\ \E i \in DOMAIN ops : Issued(i, "rsync", "cold") /\ ops[i].res = "nil"
    /\ \E i \in DOMAIN ops : Issued(i, "SetUnitTargetState", "launched") /\ ops[i].res = "nil"
    /\ \E i \in DOMAIN ops : ops[i].op = "createBackup" /\ ops[i].res = "nil"
    /\ \E i \in DOMAIN ops : ops[i].op = "uploadToS3" /\ ops[i].res = "nil"

\* C8: the process exits with status 0 exactly when every fatal stage
\* succeeded, and with a non-zero status otherwise.
C8_ExitZeroIffAllStagesSucceeded ==
    pc = "exited" => (exitCode = 0 <=> AllStagesSucceeded)

\* C9: when uploadToS3 returns, whatever the outcome of the copy, the sink has
\* been closed exactly once, and nothing is ever written to a closed sink.
C9_SinkClosedOnceOnReturn ==
    /\ sink.closes <= 1
    /\ ~sink.late
    /\ sink.state = "closed" <=> sink.closes = 1
    /\ (\E i \in DOMAIN ops : ops[i].op = "uploadToS3") => sink.closes = 1
    /\ pc \in {"copy", "closeReader", "deferClose"} => sink.closes = 0

C9_Witness ==
    /\ ops # <<>>
    /\ ops[Len(ops)].op = "uploadToS3"
    /\ ops[Len(ops)].res = "UploadError"
    /\ sink.data # <<>>
    /\ sink.closes = 1

\* C10: when uploadToS3 returns, whatever the outcome of the copy, the read end
\* of the pipe has been closed; stated for the outcome the claim singles out,
\* a copy that failed writing to the sink.
C10_ReaderClosedOnReturn ==
    \A i \in DOMAIN ops :
        (ops[i].op = "uploadToS3" /\ ops[i].res = "UploadError") => rClosed

\* the chunks the archiver has written into the pipe so far, in order
Archived == [i \in 1 .. written |-> i]

OpCount(op, arg) == Cardinality({i \in DOMAIN ops : ops[i].op = op /\ ops[i].arg = arg})

C12_ColdSyncInsideStoppedWindow ==
    /\ \A i \in DOMAIN ops : Issued(i, "rsync", "cold") =>
          \E j \in 1 .. (i - 1) :
              Issued(j, "SetUnitTargetState", "inactive") /\ ops[j].res = "nil"
    /\ \A i, j \in DOMAIN ops :
          (Issued(i, "SetUnitTargetState", "launched") /\ ops[j].op = "rsync") => j < i
    /\ pc = "coldSync" => SetOps = <<Op("SetUnitTargetState", neoServiceName, "inactive", "nil")>>

C12_Witness ==
    \E i, j, k \in DOMAIN ops :
        /\ i < j /\ j < k
        /\ Issued(i, "SetUnitTargetState", "inactive")
        /\ Issued(j, "rsync", "cold")
        /\ Issued(k, "SetUnitTargetState", "launched")

\* C13: when the safety check passes and the scheduler fails the stop request,
\* the run ends in failure with that error, and no cold sync, start request,
\* archive or upload is performed.
C13_StopFailureHaltsRun ==
    (\E i \in DOMAIN ops : Issued(i, "SetUnitTargetState", "inactive") /\ ops[i].res # "nil") =>
        /\ Returned
        /\ err = "SchedulerError"
        /\ pc = "exited" => exitCode = 1
        /\ Issued(Len(ops), "SetUnitTargetState", "inactive")
        /\ OpCount("rsync", "cold") = 0
        /\ OpCount("SetUnitTargetState", "launched") = 0
        /\ apc = "none"
        /\ sink.data = <<>>

C13_Witness ==
    /\ pc = "exited"
    /\ Issued(Len(ops), "SetUnitTargetState", "inactive")
    /\ ops[Len(ops)].res = "SchedulerError"
    /\ Issued(Len(ops) - 1, "UnitStates", "inactive")

\* C14: the roster is queried at most once in a run, and a stop request is the
\* very next operation after that query.
C14_CheckedOnceRightBeforeStop ==
    /\ Cardinality({i \in DOMAIN ops : ops[i].op = "UnitStates"}) <= 1
    /\ \A i \in DOMAIN ops : Issued(i, "SetUnitTargetState", "inactive") =>
          i > 1 /\ ops[i - 1].op = "UnitStates"
    /\ pc = "setInactive" => ops[Len(ops)].op = "UnitStates"

C14_Witness ==
    \E i \in DOMAIN ops :
        /\ Issued(i, "SetUnitTargetState", "inactive")
        /\ ops[i - 1].op = "UnitStates"
        /\ Len(HotOps) = 2

\* C15: the stop request, the cold sync, the start request, the archive
\* creation and the upload are each attempted at most once, and a stop request
\* precedes the start request.
C15_NoRetryAfterHotSync ==
    /\ OpCount("SetUnitTargetState", "inactive") <= 1
    /\ OpCount("rsync", "cold") <= 1
    /\ OpCount("SetUnitTargetState", "launched") <= 1
    /\ OpCount("createBackup", "") <= 1
    /\ OpCount("uploadToS3", "") <= 1
    /\ \A i \in DOMAIN ops : Issued(i, "SetUnitTargetState", "launched") =>
          \E j \in 1 .. (i - 1) : Issued(j, "SetUnitTargetState", "inactive")

C15_Witness ==
    /\ pc = "exited"
    /\ OpCount("rsync", "cold") = 1
    /\ OpCount("uploadToS3", "") = 1
    /\ ops[Len(ops)].res # "nil"

\* the archiver waits on a pipe write that nothing will let through
ArchiverBlocked ==
    /\ apc = "writing"
    /\ written < total
    /\ Len(pipe) >= PipeCap
    /\ ~rClosed

\* C16: once uploadToS3 has returned because the copy to the sink failed, the
\* archiver is not left waiting on a pipe write: the pipe has been closed under
\* it, so its pending or next write fails.
C16_ArchiverReleasedOnCopyFailure ==
    (\E i \in DOMAIN ops : ops[i].op = "uploadToS3" /\ ops[i].res = "UploadError") =>
        ~ArchiverBlocked

\* C17: every run that has terminated after obtaining the sink has closed it
\* exactly once, whatever the stage it ended at.
C17_SinkClosedOnceWhenTerminated ==
    (pc = "exited" /\ sink.state # "none") => sink.closes = 1

\* runOuter ended before it obtained the sink
StartupFailed == Returned /\ sink.state = "none"

\* C18: when the scheduler client or the sink cannot be obtained, the run ends
\* with that error without a sync, roster query, stop or start request.
C18_StartupFailureBeforeSideEffects ==
    StartupFailed =>
        /\ ops = <<>>
        /\ ~stopObs.issued
        /\ apc = "none"
        /\ sink.closes = 0
        /\ pc = "return" => err = "ConnectivityError"
        /\ pc = "exited" => exitCode = 1

C18_Witness ==
    /\ pc = "exited"
    /\ sink.state = "none"
    /\ err = "ConnectivityError"
    /\ exitCode = 1

\* runInner's absorbing Failed state
Failed == Returned /\ err # "nil"

\* C19: under those assumptions every run ends, in Done or in Failed, after at
\* most three syncs, one roster query and two set-target-state requests, and
\* nothing further is issued once it has failed.
C19_RunTerminates ==
    /\ <>Returned
    /\ [](/\ Cardinality({i \in DOMAIN ops : ops[i].op = "rsync"}) <= 3
          /\ Cardinality({i \in DOMAIN ops : ops[i].op = "UnitStates"}) <= 1
          /\ Len(SetOps) <= 2)
    /\ [][Failed => (Failed' /\ ops' = ops /\ sink' = sink /\ err' = err)]_vars

C19_Witness ==
    /\ pc = "exited"
    /\ exitCode = 0
    /\ Cardinality({i \in DOMAIN ops : ops[i].op = "rsync"}) = 3
    /\ Len(SetOps) = 2

====
